---- MODULE Spec2Model ----
(***************************************************************************)
(* The RAW -> SILVER -> GOLD pipeline of app/pipeline_pg.py as a state     *)
(* machine over the committed contents of the four PostgreSQL tables       *)
(* (raw.events_raw, silver.events, gold.global_stats, gold.load_log) and   *)
(* the position of each stage's process.  One action is one stretch of a   *)
(* stage between two database statements whose effect another session can  *)
(* tell apart; writes of an open transaction are kept in the process and   *)
(* reach the tables at conn.commit().  Prices are integers in cents.       *)
(***************************************************************************)
EXTENDS Integers, Sequences, FiniteSets, TLC

\* ------------------------------------------------------------------ bounds
MaxRows == 2        \* data rows of the source files, all files together
MaxChunk == 2       \* largest chunk size a run is started with
MaxLog == 3         \* ledger rows beyond which no run is started
MaxSeq == 3         \* raw ids drawn beyond which no ingestion is started
MaxLogFixed == 6    \* MaxLog of the runs over a fixed set of sources

\* --------------------------------------------------------------- constants
EXPECTED_HEADER == <<"timestamp", "price", "user_id">>
BadHeader == <<"a", "b">>
Headers == {EXPECTED_HEADER, BadHeader}
FileNames == <<"a.csv", "b.csv">>     \* discover_files returns them sorted

\* Rows a source file can hold: a clean row, a row with a negative price whose
\* date and identifier fall back, a well-shaped row whose price is the decimal
\* literal Infinity, a two-column row, and a well-shaped row whose identifier
\* is an integer of twenty-one digits.
RowOk == <<"2024-01-05T10:00:00Z", "1.005", "7">>
RowNeg == <<"", "-2.50", "abc">>
RowInf == <<"2024-01-05", "Infinity", "7.9">>
RowShort == <<"x", "1.005">>
RowBig == <<"2024-01-05", "7", "1E+20">>
RowSet == {RowOk, RowNeg, RowInf, RowShort, RowBig}
\* A row with no price, and the rows of the sources whose prices are zero,
\* negative and positive.
RowZero == <<"2024-01-05", "", "7">>
PriceRows == {RowZero, RowNeg, RowOk}

NULL == {}                    \* SQL NULL / Python None: no value
Some(v) == {v}
TheValue(opt) == CHOOSE v \in opt : TRUE

\* ----------------------------------------------------------- small helpers
Range(s) == {s[i] : i \in 1..Len(s)}

RECURSIVE SumSeq(_)
SumSeq(s) == IF s = <<>> THEN 0 ELSE s[1] + SumSeq(Tail(s))

MinOf(S) == CHOOSE m \in S : \A x \in S : m <= x
MaxOf(S) == CHOOSE m \in S : \A x \in S : m >= x

\* A finite set of integers as an ascending sequence (ORDER BY on a key).
RECURSIVE SortInts(_)
SortInts(S) ==
    IF S = {} THEN <<>>
    ELSE LET first == MinOf(S) IN <<first>> \o SortInts(S \ {first})

Take(s, n) == SubSeq(s, 1, IF n < Len(s) THEN n ELSE Len(s))

SeqsUpTo(S, n) == UNION {[1..k -> S] : k \in 0..n}

\* The subsequences of FileNames (files found by a pattern, minus excludes).
FileLists ==
    {<<>>, <<FileNames[1]>>, <<FileNames[2]>>, <<FileNames[1], FileNames[2]>>}

\* --------------------------------------------------------- coercion rules
\* The least integer a NUMERIC(18, 0) column rejects, 10^18, scaled to the
\* integers of the checker: every value of the other literals lies far below.
NumericLimit == 1000000

\* Field texts the coercion rules are called with on their own: the fields
\* of RowSet and further literals.
FieldTexts ==
    {"", " ", "abc", "0", "7", " 7 ", "7.0", "7.9", "-7.9", "1.005", "10.005",
     "10.004", "-2.50", "-2.505", "1E+20", "1E+30", "Infinity", "NaN",
     "2024-01-05", "2024-01-05T10:00:00Z", "2024-1-5"}

\* value.strip() over FieldTexts.
Strip(value) ==
    CASE value = " " -> ""
      [] value = " 7 " -> "7"
      [] OTHER -> value

\* Decimal(text) over FieldTexts: a finite value in thousandths, a finite
\* integer at or beyond 10^18 ("big": 1E+20, "huge": 1E+30), an infinity, a
\* quiet NaN, or InvalidOperation.
ParseDecimal(text) ==
    CASE text = "0" -> [kind |-> "finite", milli |-> 0]
      [] text = "7" -> [kind |-> "finite", milli |-> 7000]
      [] text = "7.0" -> [kind |-> "finite", milli |-> 7000]
      [] text = "7.9" -> [kind |-> "finite", milli |-> 7900]
      [] text = "-7.9" -> [kind |-> "finite", milli |-> -7900]
      [] text = "1.005" -> [kind |-> "finite", milli |-> 1005]
      [] text = "10.005" -> [kind |-> "finite", milli |-> 10005]
      [] text = "10.004" -> [kind |-> "finite", milli |-> 10004]
      [] text = "-2.50" -> [kind |-> "finite", milli |-> -2500]
      [] text = "-2.505" -> [kind |-> "finite", milli |-> -2505]
      [] text = "1E+20" -> [kind |-> "big", milli |-> 0]
      [] text = "1E+30" -> [kind |-> "huge", milli |-> 0]
      [] text = "Infinity" -> [kind |-> "inf", milli |-> 0]
      [] text = "NaN" -> [kind |-> "nan", milli |-> 0]
      [] OTHER -> [kind |-> "invalid", milli |-> 0]

\* value.quantize(TWO_PLACES, rounding=ROUND_HALF_UP), thousandths to cents:
\* ties go away from zero.
QuantizeHalfUp(milli) ==
    IF milli >= 0 THEN (milli + 5) \div 10 ELSE -((-milli + 5) \div 10)

\* Mutant of TruncInt: rounding toward minus infinity.
TruncIntFloor(milli) == milli \div 1000

\* int(decimal_value): truncation toward zero.
TruncInt(milli) ==
    IF milli >= 0 THEN milli \div 1000 ELSE -((-milli) \div 1000)

\* raises: quantize signals InvalidOperation; nan: the value returned is the
\* decimal NaN, which quantize lets through.
coerce_price(value) ==
    LET text == Strip(value)
        d == ParseDecimal(text)
    IN IF text = ""
       THEN [raises |-> FALSE, nan |-> FALSE, value |-> 0, coerced |-> TRUE]
       ELSE CASE d.kind = "invalid" ->
                   [raises |-> FALSE, nan |-> FALSE, value |-> 0,
                    coerced |-> TRUE]
              [] d.kind \in {"inf", "huge"} ->
                   [raises |-> TRUE, nan |-> FALSE, value |-> 0,
                    coerced |-> FALSE]
              [] d.kind = "nan" ->
                   [raises |-> FALSE, nan |-> TRUE, value |-> 0,
                    coerced |-> FALSE]
              [] d.kind = "big" ->    \* 23 digits: within the precision
                   [raises |-> FALSE, nan |-> FALSE,
                    value |-> 100 * NumericLimit, coerced |-> FALSE]
              [] OTHER ->
                   [raises |-> FALSE, nan |-> FALSE,
                    value |-> QuantizeHalfUp(d.milli), coerced |-> FALSE]

\* int() raises ValueError on a NaN and OverflowError on an infinity, both
\* caught.
coerce_user_id(value) ==
    LET text == Strip(value)
        d == ParseDecimal(text)
    IN IF text = "" THEN [value |-> 0, coerced |-> TRUE]
       ELSE CASE d.kind \in {"invalid", "inf", "nan"} ->
                   [value |-> 0, coerced |-> TRUE]
              [] d.kind \in {"big", "huge"} ->
                   [value |-> NumericLimit, coerced |-> FALSE]
              [] OTHER ->
                   [value |-> TruncInt(d.milli),
                    coerced |-> d.milli # 1000 * TruncInt(d.milli)]

\* datetime.fromisoformat over FieldTexts, else the strptime formats, whose
\* match is flagged, else the default date.
coerce_date(value) ==
    LET text == Strip(value)
    IN CASE text = "" -> [value |-> "1970-01-01", coerced |-> TRUE]
         [] text = "2024-01-05T10:00:00Z" ->
                [value |-> "2024-01-05", coerced |-> FALSE]
         [] text = "2024-01-05" ->
                [value |-> "2024-01-05", coerced |-> FALSE]
         [] text = "2024-1-5" ->
                [value |-> "2024-01-05", coerced |-> TRUE]
         [] OTHER -> [value |-> "1970-01-01", coerced |-> TRUE]

\* ------------------------------------------------------------------ state
VARIABLES
    events_raw,     \* committed rows of raw.events_raw
    raw_id_seq,     \* last value drawn from the BIGSERIAL sequence of raw ids
    events,         \* committed rows of silver.events
    global_stats,   \* committed rows of gold.global_stats (at most the row id 1)
    load_log,       \* committed rows of gold.load_log, in write order
    ing,            \* the run_load_raw process
    tr,             \* the run_raw_to_silver process
    agg,            \* the run_silver_to_gold processes
    data_dir,       \* the source files: per name, header and rows once read
    ingested,       \* history: the file names ingested to the end
    folded,         \* history: typed-record ids merged into the aggregate
    call,           \* a coercion rule called on its own: rule, text, outcome
    cmd             \* the command main runs: init, check or load and its position

vars == <<events_raw, raw_id_seq, events, global_stats, load_log, ing, tr, agg,
          data_dir, ingested, folded, call, cmd>>

ZeroStats ==
    [id |-> 1, total_count |-> 0, total_sum |-> 0, min_price |-> NULL,
     max_price |-> NULL, last_silver_id |-> 0]

\* Mutant of ensure_global_stats_row: ON CONFLICT (id) DO UPDATE, an existing
\* row is set back to zero.
EnsureGlobalStatsRowResets(table) == <<ZeroStats>>

\* INSERT ... VALUES (1, 0, 0, NULL, NULL, 0, NOW()) ON CONFLICT (id) DO NOTHING
ensure_global_stats_row(table) ==
    IF \E r \in Range(table) : r.id = 1 THEN table ELSE Append(table, ZeroStats)

\* The row id = 1 of a gold.global_stats table that has one.
StatsRow(table) == table[CHOOSE i \in 1..Len(table) : table[i].id = 1]

IdleIng ==
    [pc |-> "idle", files |-> <<>>, chunk_size |-> 0, file_name |-> "",
     rows |-> <<>>, row_number |-> 0, file_inserted_prices |-> <<>>,
     txn |-> {}]

IdleTr ==
    [pc |-> "idle", chunk_size |-> 0, rows |-> <<>>, processed_rows |-> 0,
     coerced_rows |-> 0, inserted_prices |-> <<>>]

IdleAgg ==
    [pc |-> "idle", chunk_size |-> 0, rows |-> <<>>, processed |-> 0,
     aggregated_prices |-> <<>>, txn |-> <<>>]

NoCall == [pc |-> "none", rule |-> "", text |-> ""]

\* No init, check or load command is running.
NoCmd ==
    [name |-> "", pc |-> "idle", stage |-> "", chunk_size |-> 0, ran |-> <<>>,
     raised |-> FALSE]

\* The tables after run_init, empty but for the zero aggregate row, and no
\* stage running.
InitStores ==
    /\ events_raw = {}
    /\ raw_id_seq = 0
    /\ events = {}
    /\ global_stats = ensure_global_stats_row(<<>>)
    /\ load_log = <<>>
    /\ ing = IdleIng
    /\ tr = IdleTr
    /\ agg = [p \in {1} |-> IdleAgg]
    /\ data_dir = [f \in Range(FileNames) |-> NULL]
    /\ ingested = {}
    /\ folded = <<>>
    /\ cmd = NoCmd

\* The state after run_init.
Init == InitStores /\ call = NoCall

\* ------------------------------------------------------------ batch ledger
\* (total / records).quantize(TWO_PLACES, ROUND_HALF_UP) on cents.
AvgHalfUp(total, records) ==
    IF total >= 0 THEN (2 * total + records) \div (2 * records)
    ELSE -((2 * (-total) + records) \div (2 * records))

NoDetails == [kind |-> "none", rows |-> 0]

\* The row record_load_log inserts into gold.load_log (the chunk_size column,
\* which nothing reads back, is left out of the row).
LogEntry(layer, file_name, records, prices, chunk_size, status, details) ==
    [layer |-> layer, file_name |-> file_name, records |-> records,
     min_price |-> IF prices # <<>> THEN Some(MinOf(Range(prices))) ELSE NULL,
     avg_price |-> IF records > 0 /\ prices # <<>>
                   THEN Some(AvgHalfUp(SumSeq(prices), records)) ELSE NULL,
     max_price |-> IF prices # <<>> THEN Some(MaxOf(Range(prices))) ELSE NULL,
     status |-> status, details |-> details]

\* Mutant of record_load_log: the run's row takes the place of the last row.
RecordLoadLogOverwrites(log, layer, file_name, records, prices, chunk_size, status, details) ==
    LET entry == LogEntry(layer, file_name, records, prices, chunk_size,
                          status, details)
    IN IF log = <<>> THEN <<entry>> ELSE [log EXCEPT ![Len(log)] = entry]

record_load_log(log, layer, file_name, records, prices, chunk_size, status, details) ==
    Append(log, LogEntry(layer, file_name, records, prices, chunk_size, status,
                         details))

\* ---------------------------------------------------------------- Ingestor
\* Rows of raw.events_raw visible to the Ingestor's open transaction.
RawVisible == events_raw \cup ing.txn

\* Mutant of insert_raw_chunk: a plain INSERT, no ON CONFLICT clause and no
\* unique key to stop it.
RECURSIVE InsertRawChunkNoConflict(_, _, _)
InsertRawChunkNoConflict(visible, seq, batch) ==
    IF batch = <<>> THEN [inserted |-> <<>>, seq |-> seq]
    ELSE LET t == batch[1]
             row == [id |-> seq + 1, source_file |-> t[1], row_number |-> t[2],
                     timestamp_raw |-> t[3], price_raw |-> t[4],
                     user_id_raw |-> t[5]]
             rest == InsertRawChunkNoConflict(visible, seq + 1, Tail(batch))
         IN [inserted |-> <<row>> \o rest.inserted, seq |-> rest.seq]

\* Mutant of insert_raw_chunk: ON CONFLICT (source_file, row_number) DO UPDATE
\* with the proposed fields; RETURNING also gives the rows updated.
RECURSIVE InsertRawChunkDoUpdate(_, _, _)
InsertRawChunkDoUpdate(visible, seq, batch) ==
    IF batch = <<>> THEN [inserted |-> <<>>, seq |-> seq]
    ELSE LET t == batch[1]
             old == {r \in visible :
                        r.source_file = t[1] /\ r.row_number = t[2]}
             row == [id |-> IF old = {} THEN seq + 1
                            ELSE (CHOOSE r \in old : TRUE).id,
                     source_file |-> t[1], row_number |-> t[2],
                     timestamp_raw |-> t[3], price_raw |-> t[4],
                     user_id_raw |-> t[5]]
             rest == InsertRawChunkDoUpdate((visible \ old) \cup {row},
                                            seq + 1, Tail(batch))
         IN [inserted |-> <<row>> \o rest.inserted, seq |-> rest.seq]

\* insert_raw_chunk: INSERT ... ON CONFLICT (source_file, row_number) DO
\* NOTHING RETURNING id, row_number.  The id default draws from the sequence
\* for every proposed row, kept or not.  Gives the rows inserted and the
\* sequence's last value.
RECURSIVE insert_raw_chunk(_, _, _)
insert_raw_chunk(visible, seq, batch) ==
    IF batch = <<>> THEN [inserted |-> <<>>, seq |-> seq]
    ELSE LET t == batch[1]
             conflict == \E r \in visible :
                            r.source_file = t[1] /\ r.row_number = t[2]
             row == [id |-> seq + 1, source_file |-> t[1], row_number |-> t[2],
                     timestamp_raw |-> t[3], price_raw |-> t[4],
                     user_id_raw |-> t[5]]
             rest == insert_raw_chunk(
                        IF conflict THEN visible ELSE visible \cup {row},
                        seq + 1, Tail(batch))
         IN [inserted |-> IF conflict THEN rest.inserted
                          ELSE <<row>> \o rest.inserted,
             seq |-> rest.seq]

\* Mutant of ReadRows: the rows of a batch still short of chunk_size when the
\* reader is exhausted are lost (no trailing insert).
RECURSIVE ReadRowsDropsTail(_, _, _, _, _)
ReadRowsDropsTail(file_name, rows, row_number, batch, chunk_size) ==
    IF row_number = Len(rows)
    THEN [outcome |-> "eof", row_number |-> row_number, batch |-> <<>>]
    ELSE LET n == row_number + 1
             row == rows[n]
         IN IF Len(row) # 3
            THEN ReadRowsDropsTail(file_name, rows, n, batch, chunk_size)
            ELSE IF coerce_price(row[2]).raises
            THEN [outcome |-> "raise", row_number |-> n, batch |-> batch]
            ELSE LET b == Append(batch,
                                 <<file_name, n, row[1], row[2], row[3]>>)
                 IN IF Len(b) >= chunk_size
                    THEN [outcome |-> "full", row_number |-> n, batch |-> b]
                    ELSE ReadRowsDropsTail(file_name, rows, n, b, chunk_size)

\* The body of "for row in reader" from the row after row_number on, up to the
\* first of: the batch reaches chunk_size ("full"), coerce_price raises
\* ("raise"), the reader is exhausted ("eof").
RECURSIVE ReadRows(_, _, _, _, _)
ReadRows(file_name, rows, row_number, batch, chunk_size) ==
    IF row_number = Len(rows)
    THEN [outcome |-> "eof", row_number |-> row_number, batch |-> batch]
    ELSE LET n == row_number + 1
             row == rows[n]
         IN IF Len(row) # 3
            THEN ReadRows(file_name, rows, n, batch, chunk_size)
            ELSE IF coerce_price(row[2]).raises
            THEN [outcome |-> "raise", row_number |-> n, batch |-> batch]
            ELSE LET b == Append(batch,
                                 <<file_name, n, row[1], row[2], row[3]>>)
                 IN IF Len(b) >= chunk_size
                    THEN [outcome |-> "full", row_number |-> n, batch |-> b]
                    ELSE ReadRows(file_name, rows, n, b, chunk_size)

\* pending_prices[row_number] of the rows insert_raw_chunk returned.
InsertedPrices(inserted) ==
    [i \in 1..Len(inserted) |-> coerce_price(inserted[i].price_raw).value]

\* The terminal status of a header-valid file.
RawStatus(file_inserted_prices, row_number) ==
    IF file_inserted_prices # <<>> THEN "SUCCESS"
    ELSE IF row_number > 0 THEN "NO_NEW_ROWS"
    ELSE "EMPTY_FILE"

\* run_load_raw up to the connection: discover_files, the exclusions, and
\* the early return when no file is left.
run_load_raw_called(files, chunk_size) ==
    /\ ing.pc = "idle"
    /\ ing' = IF files = <<>> THEN IdleIng
              ELSE [IdleIng EXCEPT !.pc = "file", !.files = files,
                                   !.chunk_size = chunk_size]
    /\ UNCHANGED <<events_raw, raw_id_seq, events, global_stats, load_log, tr,
                   agg, data_dir, ingested, folded, call>>

\* The load-raw command: run_load_raw called by main.
LoadRawStart(files, chunk_size) == run_load_raw_called(files, chunk_size) /\ UNCHANGED cmd

\* Data rows of the files of a set, each read before.
RECURSIVE RowsIn(_)
RowsIn(files) ==
    IF files = {} THEN 0
    ELSE LET f == CHOOSE g \in files : TRUE
         IN Len(TheValue(data_dir[f]).rows) + RowsIn(files \ {f})

\* Data rows of the files read so far, file_name left aside.
RowsElsewhere(file_name) ==
    RowsIn({f \in DOMAIN data_dir : f # file_name /\ data_dir[f] # NULL})

\* The file as the reader finds it: a file keeps the header and the rows it
\* had when it was first read.
ReadsFile(file_name, header, rows) ==
    LET src == [header |-> header, rows |-> rows]
    IN /\ data_dir[file_name] \in {NULL, Some(src)}
       /\ Len(rows) + RowsElsewhere(file_name) <= MaxRows
       /\ data_dir' = [data_dir EXCEPT ![file_name] = Some(src)]

\* Between two runs a source file is replaced by one of another content under
\* the same name; the next run that opens the file reads the new content.
RewriteSource(file_name, header, rows) ==
    LET src == [header |-> header, rows |-> rows]
    IN /\ ing.pc = "idle"
       /\ data_dir[file_name] # NULL
       /\ data_dir[file_name] # Some(src)
       /\ Len(rows) + RowsElsewhere(file_name) <= MaxRows
       /\ data_dir' = [data_dir EXCEPT ![file_name] = Some(src)]
       /\ UNCHANGED <<events_raw, raw_id_seq, events, global_stats, load_log,
                      ing, tr, agg, ingested, folded, call, cmd>>

\* Mutant of HeaderOk: no header check.
HeaderOkAlways(header) == TRUE

\* header != EXPECTED_HEADER decides whether the file is skipped.
HeaderOk(header) == header = EXPECTED_HEADER

\* Opening the next file with an unexpected header: one ledger row, commit,
\* continue with the following file.
LoadRawBadHeader(header) ==
    /\ ing.pc = "file"
    /\ ing.files # <<>>
    /\ ~HeaderOk(header)
    /\ ReadsFile(Head(ing.files), header, <<>>)
    /\ load_log' = record_load_log(load_log, "raw", Head(ing.files), 0, <<>>,
                                   ing.chunk_size, "SKIPPED_BAD_HEADER",
                                   [kind |-> "bad_header", rows |-> 0])
    /\ ing' = [ing EXCEPT !.files = Tail(@)]
    /\ UNCHANGED <<events_raw, raw_id_seq, events, global_stats, tr, agg, ingested, folded, call, cmd>>

\* Opening the next file with the expected header.
LoadRawOpen(header, rows) ==
    /\ ing.pc = "file"
    /\ ing.files # <<>>
    /\ HeaderOk(header)
    /\ ReadsFile(Head(ing.files), header, rows)
    /\ ing' = [ing EXCEPT !.pc = "rows", !.file_name = Head(ing.files),
                          !.rows = rows, !.row_number = 0,
                          !.file_inserted_prices = <<>>]
    /\ UNCHANGED <<events_raw, raw_id_seq, events, global_stats, load_log, tr,
                   agg, ingested, folded, call, cmd>>

\* Reading rows until the batch is full, then insert_raw_chunk (no commit).
LoadRawBatch ==
    /\ ing.pc = "rows"
    /\ LET rd == ReadRows(ing.file_name, ing.rows, ing.row_number, <<>>,
                          ing.chunk_size)
           ins == insert_raw_chunk(RawVisible, raw_id_seq, rd.batch)
       IN /\ rd.outcome = "full"
          /\ raw_id_seq' = ins.seq
          /\ ing' = [ing EXCEPT
                       !.row_number = rd.row_number,
                       !.txn = @ \cup Range(ins.inserted),
                       !.file_inserted_prices =
                           @ \o InsertedPrices(ins.inserted)]
    /\ UNCHANGED <<events_raw, events, global_stats, load_log, tr, agg, data_dir, ingested, folded, call, cmd>>

\* Reading the last rows of the file, the trailing insert_raw_chunk, the
\* file's ledger row and conn.commit().
LoadRawFinishFile ==
    /\ ing.pc = "rows"
    /\ LET rd == ReadRows(ing.file_name, ing.rows, ing.row_number, <<>>,
                          ing.chunk_size)
           ins == insert_raw_chunk(RawVisible, raw_id_seq, rd.batch)
           prices == ing.file_inserted_prices \o InsertedPrices(ins.inserted)
       IN /\ rd.outcome = "eof"
          /\ raw_id_seq' = ins.seq
          /\ events_raw' = events_raw \cup ing.txn \cup Range(ins.inserted)
          /\ load_log' = record_load_log(load_log, "raw", ing.file_name,
                                         Len(prices), prices, ing.chunk_size,
                                         RawStatus(prices, rd.row_number),
                                         NoDetails)
          /\ ingested' = ingested \cup {ing.file_name}
          /\ ing' = [ing EXCEPT !.pc = "file", !.files = Tail(@),
                                !.file_name = "", !.rows = <<>>,
                                !.row_number = 0, !.txn = {},
                                !.file_inserted_prices = <<>>]
    /\ UNCHANGED <<events, global_stats, tr, agg, data_dir, folded, call, cmd>>

\* coerce_price raises out of the row loop: the connection's context manager
\* rolls the open transaction back and the run ends with the exception.
run_load_raw_raises ==
    /\ ing.pc = "rows"
    /\ ReadRows(ing.file_name, ing.rows, ing.row_number, <<>>,
                ing.chunk_size).outcome = "raise"
    /\ ing' = IdleIng
    /\ UNCHANGED <<events_raw, raw_id_seq, events, global_stats, load_log, tr,
                   agg, data_dir, ingested, folded, call>>

\* The load-raw command ends with the exception.
LoadRawRaise == run_load_raw_raises /\ UNCHANGED cmd

\* After the last file: the summary is printed and the run returns.
run_load_raw_returns ==
    /\ ing.pc = "file"
    /\ ing.files = <<>>
    /\ ing' = IdleIng
    /\ UNCHANGED <<events_raw, raw_id_seq, events, global_stats, load_log, tr,
                   agg, data_dir, ingested, folded, call>>

\* The load-raw command returns.
LoadRawReturn == run_load_raw_returns /\ UNCHANGED cmd

\* The process is killed: the open transaction is never committed.
LoadRawKill ==
    /\ ing.pc # "idle"
    /\ ing' = IdleIng
    /\ UNCHANGED <<events_raw, raw_id_seq, events, global_stats, load_log, tr,
                   agg, data_dir, ingested, folded, call, cmd>>

\* ------------------------------------------------------------- Transformer
RawById(id) == CHOOSE r \in events_raw : r.id = id

\* Mutant of SelectPendingRaw: no anti-join, every raw row is selected.
SelectPendingRawAll(chunk_size) ==
    LET ids == Take(SortInts({r.id : r \in events_raw}), chunk_size)
    IN [i \in 1..Len(ids) |-> RawById(ids[i])]

\* Mutant of SelectPendingRaw: ORDER BY r.id DESC.
SelectPendingRawDescending(chunk_size) ==
    LET pending == {r.id : r \in {q \in events_raw :
                                    \A e \in events : e.raw_id # q.id}}
        asc == SortInts(pending)
        ids == Take([i \in 1..Len(asc) |-> asc[Len(asc) + 1 - i]], chunk_size)
    IN [i \in 1..Len(ids) |-> RawById(ids[i])]

\* SELECT r.* FROM raw.events_raw r LEFT JOIN silver.events s
\* ON s.raw_id = r.id WHERE s.raw_id IS NULL ORDER BY r.id LIMIT chunk_size
SelectPendingRaw(chunk_size) ==
    LET pending == {r.id : r \in {q \in events_raw :
                                    \A e \in events : e.raw_id # q.id}}
        ids == Take(SortInts(pending), chunk_size)
    IN [i \in 1..Len(ids) |-> RawById(ids[i])]

\* Mutant of dq_status: COERCED only when all three fields are flagged.
DqStatusAllFlagged(date_coerced, price_coerced, user_coerced) ==
    IF date_coerced /\ price_coerced /\ user_coerced THEN "COERCED" ELSE "OK"

dq_status(date_coerced, price_coerced, user_coerced) ==
    IF date_coerced \/ price_coerced \/ user_coerced THEN "COERCED" ELSE "OK"

\* Mutant of TypedRow: the typed row is keyed by the row's position in its
\* file, not by the raw id.
TypedRowKeyedByRowNumber(r) ==
    LET d == coerce_date(r.timestamp_raw)
        p == coerce_price(r.price_raw)
        u == coerce_user_id(r.user_id_raw)
    IN [raw_id |-> r.row_number, event_date |-> d.value, price |-> p.value,
        user_id |-> u.value,
        dq_status |-> dq_status(d.coerced, p.coerced, u.coerced),
        source_file |-> r.source_file]

\* The payload tuple built from one selected raw row.
TypedRow(r) ==
    LET d == coerce_date(r.timestamp_raw)
        p == coerce_price(r.price_raw)
        u == coerce_user_id(r.user_id_raw)
    IN [raw_id |-> r.id, event_date |-> d.value, price |-> p.value,
        user_id |-> u.value,
        dq_status |-> dq_status(d.coerced, p.coerced, u.coerced),
        source_file |-> r.source_file]

Payload(rows) == [i \in 1..Len(rows) |-> TypedRow(rows[i])]

\* INSERT INTO silver.events ... ON CONFLICT (raw_id) DO NOTHING
UpsertSilver(table, payload) ==
    table \cup {t \in Range(payload) : \A e \in table : e.raw_id # t.raw_id}

\* The INSERT fails with "numeric field overflow": price is NUMERIC(18, 2),
\* user_id is NUMERIC(18, 0).
NumericOverflow(payload) ==
    \E i \in 1..Len(payload) :
        \/ payload[i].user_id >= NumericLimit \/ payload[i].user_id <= -NumericLimit
        \/ payload[i].price >= NumericLimit \/ payload[i].price <= -NumericLimit

run_raw_to_silver_called(chunk_size) ==
    /\ tr.pc = "idle"
    /\ tr' = [IdleTr EXCEPT !.pc = "select", !.chunk_size = chunk_size]
    /\ UNCHANGED <<events_raw, raw_id_seq, events, global_stats, load_log, ing,
                   agg, data_dir, ingested, folded, call>>

\* The raw-to-silver command: run_raw_to_silver called by main.
RawToSilverStart(chunk_size) == run_raw_to_silver_called(chunk_size) /\ UNCHANGED cmd

\* The chunk SELECT and fetchall; an empty result leaves the loop.
RawToSilverSelect ==
    /\ tr.pc = "select"
    /\ LET rows == SelectPendingRaw(tr.chunk_size)
       IN tr' = [tr EXCEPT !.rows = rows,
                           !.pc = IF rows = <<>> THEN "log" ELSE "chunk"]
    /\ UNCHANGED <<events_raw, raw_id_seq, events, global_stats, load_log, ing,
                   agg, data_dir, ingested, folded, call, cmd>>

\* Coercing the chunk, the INSERT and conn.commit().
RawToSilverChunk ==
    /\ tr.pc = "chunk"
    /\ LET payload == Payload(tr.rows)
       IN /\ ~NumericOverflow(payload)
          /\ events' = UpsertSilver(events, payload)
          /\ tr' = [tr EXCEPT
                      !.pc = "select", !.rows = <<>>,
                      !.processed_rows = @ + Len(payload),
                      !.coerced_rows = @ + Cardinality(
                          {i \in 1..Len(payload) :
                              payload[i].dq_status = "COERCED"}),
                      !.inserted_prices =
                          @ \o [i \in 1..Len(payload) |-> payload[i].price]]
    /\ UNCHANGED <<events_raw, raw_id_seq, global_stats, load_log, ing, agg,
                   data_dir, ingested, folded, call, cmd>>

\* The INSERT raises: the connection's context manager rolls the chunk back
\* and the run ends with the exception, no ledger row written.
run_raw_to_silver_raises ==
    /\ tr.pc = "chunk"
    /\ NumericOverflow(Payload(tr.rows))
    /\ tr' = IdleTr
    /\ UNCHANGED <<events_raw, raw_id_seq, events, global_stats, load_log, ing,
                   agg, data_dir, ingested, folded, call>>

\* The raw-to-silver command ends with the exception.
RawToSilverRaise == run_raw_to_silver_raises /\ UNCHANGED cmd

\* Mutant of RunStatus: the run's status does not depend on its row count.
RunStatusAlwaysSuccess(processed) == "SUCCESS"

RunStatus(processed) == IF processed > 0 THEN "SUCCESS" ELSE "NO_NEW_ROWS"

\* After the loop: the run's ledger row and the final commit.
run_raw_to_silver_returns ==
    /\ tr.pc = "log"
    /\ load_log' = record_load_log(load_log, "silver", "raw.events_raw",
                                   tr.processed_rows, tr.inserted_prices,
                                   tr.chunk_size, RunStatus(tr.processed_rows),
                                   [kind |-> "coerced",
                                    rows |-> tr.coerced_rows])
    /\ tr' = IdleTr
    /\ UNCHANGED <<events_raw, raw_id_seq, events, global_stats, ing, agg, data_dir, ingested, folded, call>>

\* The raw-to-silver command returns.
RawToSilverLog == run_raw_to_silver_returns /\ UNCHANGED cmd

RawToSilverKill ==
    /\ tr.pc # "idle"
    /\ tr' = IdleTr
    /\ UNCHANGED <<events_raw, raw_id_seq, events, global_stats, load_log, ing,
                   agg, data_dir, ingested, folded, call, cmd>>

\* -------------------------------------------------------------- Aggregator
\* gold.global_stats as process p sees it: its own uncommitted version if it
\* wrote one, else the committed table.
StatsView(p) == IF agg[p].txn # <<>> THEN agg[p].txn ELSE global_stats

\* Mutant of SelectNewEvents: no WHERE clause, the table is read from its
\* first row.
SelectNewEventsRescans(table, watermark, chunk_size) ==
    LET ids == Take(SortInts({e.raw_id : e \in table}), chunk_size)
    IN [i \in 1..Len(ids) |->
            [raw_id |-> ids[i],
             price |-> (CHOOSE e \in table : e.raw_id = ids[i]).price]]

\* Mutant of SelectNewEvents: ORDER BY raw_id DESC.
SelectNewEventsDescending(table, watermark, chunk_size) ==
    LET asc == SortInts({e.raw_id : e \in {q \in table :
                                              q.raw_id > watermark}})
        ids == Take([i \in 1..Len(asc) |-> asc[Len(asc) + 1 - i]], chunk_size)
    IN [i \in 1..Len(ids) |->
            [raw_id |-> ids[i],
             price |-> (CHOOSE e \in table : e.raw_id = ids[i]).price]]

\* SELECT raw_id, price FROM silver.events WHERE raw_id > (SELECT
\* last_silver_id FROM gold.global_stats WHERE id = 1) ORDER BY raw_id LIMIT n
SelectNewEvents(table, watermark, chunk_size) ==
    LET ids == Take(SortInts({e.raw_id : e \in {q \in table :
                                               q.raw_id > watermark}}),
                    chunk_size)
    IN [i \in 1..Len(ids) |->
            [raw_id |-> ids[i],
             price |-> (CHOOSE e \in table : e.raw_id = ids[i]).price]]

Least(a, b) == IF a <= b THEN a ELSE b

\* Mutant of Greatest: the chunk's maximum replaces the stored one.
GreatestTakesChunk(a, b) == b

Greatest(a, b) == IF a >= b THEN a ELSE b

\* Mutant of UpdateStats: a NULL min_price or max_price is read as 0.
UpdateStatsNullAsZero(row, batch_count, batch_sum, batch_min, batch_max, last_processed_id) ==
    [row EXCEPT
        !.total_count = @ + batch_count,
        !.total_sum = @ + batch_sum,
        !.min_price = Some(Least(IF @ = NULL THEN 0 ELSE TheValue(@),
                                 TheValue(batch_min))),
        !.max_price = Some(Greatest(IF @ = NULL THEN 0 ELSE TheValue(@),
                                    TheValue(batch_max))),
        !.last_silver_id = last_processed_id]

\* Mutant of UpdateStats: the watermark advances by the number of rows.
UpdateStatsCountsRows(row, batch_count, batch_sum, batch_min, batch_max, last_processed_id) ==
    [row EXCEPT
        !.total_count = @ + batch_count,
        !.total_sum = @ + batch_sum,
        !.min_price = IF @ = NULL THEN batch_min
                      ELSE Some(Least(TheValue(@), TheValue(batch_min))),
        !.max_price = IF @ = NULL THEN batch_max
                      ELSE Some(Greatest(TheValue(@), TheValue(batch_max))),
        !.last_silver_id = @ + batch_count]

\* Mutant of UpdateStats: the statistics are merged, the watermark is not set.
UpdateStatsKeepsWatermark(row, batch_count, batch_sum, batch_min, batch_max, last_processed_id) ==
    [row EXCEPT
        !.total_count = @ + batch_count,
        !.total_sum = @ + batch_sum,
        !.min_price = IF @ = NULL THEN batch_min
                      ELSE Some(Least(TheValue(@), TheValue(batch_min))),
        !.max_price = IF @ = NULL THEN batch_max
                      ELSE Some(Greatest(TheValue(@), TheValue(batch_max)))]

\* The SET list of UPDATE gold.global_stats ... WHERE id = 1 on that row.
UpdateStats(row, batch_count, batch_sum, batch_min, batch_max, last_processed_id) ==
    [row EXCEPT
        !.total_count = @ + batch_count,
        !.total_sum = @ + batch_sum,
        !.min_price = IF @ = NULL THEN batch_min
                      ELSE IF batch_min = NULL THEN @
                      ELSE Some(Least(TheValue(@), TheValue(batch_min))),
        !.max_price = IF @ = NULL THEN batch_max
                      ELSE IF batch_max = NULL THEN @
                      ELSE Some(Greatest(TheValue(@), TheValue(batch_max))),
        !.last_silver_id = last_processed_id]

\* The table with its row id = 1 replaced.
WithStatsRow(table, row) ==
    [i \in 1..Len(table) |-> IF table[i].id = 1 THEN row ELSE table[i]]

Prices(rows) == [i \in 1..Len(rows) |-> rows[i].price]
RawIds(rows) == [i \in 1..Len(rows) |-> rows[i].raw_id]

\* Opening the connection, ensure_global_stats_row, fetch_global_stats.
run_silver_to_gold_called(p, chunk_size) ==
    /\ agg[p].pc = "idle"
    /\ LET t == ensure_global_stats_row(global_stats)
       IN agg' = [agg EXCEPT ![p] =
                    [IdleAgg EXCEPT !.pc = "select", !.chunk_size = chunk_size,
                                    !.txn = IF t = global_stats THEN <<>>
                                            ELSE t]]
    /\ UNCHANGED <<events_raw, raw_id_seq, events, global_stats, load_log, ing,
                   tr, data_dir, ingested, folded, call>>

\* The silver-to-gold command: run_silver_to_gold called by main.
SilverToGoldStart(p, chunk_size) == run_silver_to_gold_called(p, chunk_size) /\ UNCHANGED cmd

\* The chunk SELECT and fetchall; an empty result leaves the loop.
SilverToGoldSelect(p) ==
    /\ agg[p].pc = "select"
    /\ LET rows == SelectNewEvents(events,
                                   StatsRow(StatsView(p)).last_silver_id,
                                   agg[p].chunk_size)
       IN agg' = [agg EXCEPT ![p].rows = rows,
                             ![p].pc = IF rows = <<>> THEN "log"
                                       ELSE "update"]
    /\ UNCHANGED <<events_raw, raw_id_seq, events, global_stats, load_log, ing,
                   tr, data_dir, ingested, folded, call, cmd>>

\* The chunk's statistics and the UPDATE; it waits while another transaction
\* holds an uncommitted version of the row.
SilverToGoldUpdate(p) ==
    /\ agg[p].pc = "update"
    /\ \A q \in DOMAIN agg \ {p} : agg[q].txn = <<>>
    /\ LET prices == Prices(agg[p].rows)
           raw_ids == RawIds(agg[p].rows)
           row == UpdateStats(StatsRow(StatsView(p)), Len(prices),
                              SumSeq(prices), Some(MinOf(Range(prices))),
                              Some(MaxOf(Range(prices))),
                              raw_ids[Len(raw_ids)])
       IN agg' = [agg EXCEPT
                    ![p].pc = "commit",
                    ![p].processed = @ + Len(prices),
                    ![p].aggregated_prices = @ \o prices,
                    ![p].txn = WithStatsRow(StatsView(p), row)]
    /\ UNCHANGED <<events_raw, raw_id_seq, events, global_stats, load_log, ing,
                   tr, data_dir, ingested, folded, call, cmd>>

\* conn.commit() of the chunk.
SilverToGoldCommit(p) ==
    /\ agg[p].pc = "commit"
    /\ global_stats' = StatsView(p)
    /\ folded' = folded \o RawIds(agg[p].rows)
    /\ agg' = [agg EXCEPT ![p].pc = "select", ![p].rows = <<>>,
                          ![p].txn = <<>>]
    /\ UNCHANGED <<events_raw, raw_id_seq, events, load_log, ing, tr, data_dir, ingested, call, cmd>>

\* After the loop: fetch_global_stats, the run's ledger row, the final commit.
run_silver_to_gold_returns(p) ==
    /\ agg[p].pc = "log"
    /\ global_stats' = StatsView(p)
    /\ load_log' = record_load_log(load_log, "gold", "silver.events",
                                   agg[p].processed, agg[p].aggregated_prices,
                                   agg[p].chunk_size,
                                   RunStatus(agg[p].processed), NoDetails)
    /\ agg' = [agg EXCEPT ![p] = IdleAgg]
    /\ UNCHANGED <<events_raw, raw_id_seq, events, ing, tr, data_dir,
                   ingested, folded, call>>

\* The silver-to-gold command returns.
SilverToGoldLog(p) == run_silver_to_gold_returns(p) /\ UNCHANGED cmd

SilverToGoldKill(p) ==
    /\ agg[p].pc # "idle"
    /\ agg' = [agg EXCEPT ![p] = IdleAgg]
    /\ UNCHANGED <<events_raw, raw_id_seq, events, global_stats, load_log, ing,
                   tr, data_dir, ingested, folded, call, cmd>>

\* ---------------------------------------------------------- specification
\* No stage is running: the design's sequential, non-overlapping invocation.
AllIdle ==
    /\ ing.pc = "idle"
    /\ tr.pc = "idle"
    /\ \A p \in DOMAIN agg : agg[p].pc = "idle"

\* A run may be started: no stage is running and the ledger has room.
MayStart == AllIdle /\ Len(load_log) < MaxLog

\* The files of the runs that all find the same files.
FixedFiles == <<FileNames[1]>>

\* A stage is started, with any chunk size; the Ingestor on any of the file
\* lists a pattern and exclusions can leave.
StartStep ==
    \/ /\ MayStart
       /\ raw_id_seq < MaxSeq
       /\ \E files \in FileLists, n \in 1..MaxChunk : LoadRawStart(files, n)
    \/ MayStart /\ \E n \in 1..MaxChunk : RawToSilverStart(n)
    \/ MayStart /\ \E p \in DOMAIN agg, n \in 1..MaxChunk :
                       SilverToGoldStart(p, n)

\* The steps of a started Ingestor run up to its return.
LoadRawStep ==
    \/ \E header \in Headers : LoadRawBadHeader(header)
    \/ \E header \in Headers, rows \in SeqsUpTo(RowSet, MaxRows) :
            LoadRawOpen(header, rows)
    \/ LoadRawBatch
    \/ LoadRawFinishFile
    \/ LoadRawReturn

\* The steps of a started Transformer run up to its return.
RawToSilverStep ==
    \/ RawToSilverSelect
    \/ RawToSilverChunk
    \/ RawToSilverLog

\* The steps of a started Aggregator run up to its return.
SilverToGoldStep ==
    \/ \E p \in DOMAIN agg : SilverToGoldSelect(p)
    \/ \E p \in DOMAIN agg : SilverToGoldUpdate(p)
    \/ \E p \in DOMAIN agg : SilverToGoldCommit(p)
    \/ \E p \in DOMAIN agg : SilverToGoldLog(p)

\* The steps of a started stage up to its return.
InnerStep == LoadRawStep \/ RawToSilverStep \/ SilverToGoldStep

\* The steps of the three stages up to their return: runs follow one another
\* in any order.
RunStep == StartStep \/ InnerStep

\* A running stage is killed between two of its steps.
KillStep ==
    \/ LoadRawKill
    \/ RawToSilverKill
    \/ \E p \in DOMAIN agg : SilverToGoldKill(p)

\* A running stage ends with an exception raised by its own code.
RaiseStep ==
    \/ LoadRawRaise
    \/ RawToSilverRaise

Next == RunStep \/ RaiseStep \/ KillStep

Spec == Init /\ [][Next]_vars

\* Complete runs only: no process is killed and no run ends with an exception.
SpecRuns == Init /\ [][RunStep]_vars

\* A source file changes between two runs.
RewriteStep ==
    /\ AllIdle
    /\ \E f \in Range(FixedFiles), rows \in SeqsUpTo(RowSet, MaxRows) : RewriteSource(f, EXPECTED_HEADER, rows)

\* An Ingestor run over the same files is started.
LoadRawStartStep ==
    /\ MayStart
    /\ raw_id_seq < MaxSeq
    /\ \E n \in 1..MaxChunk : LoadRawStart(FixedFiles, n)

\* Ingestor runs, any of them killed or ended by an exception, over source
\* files that change between runs.
SpecRewrite ==
    Init /\ [][\/ LoadRawStartStep \/ LoadRawStep \/ LoadRawRaise
               \/ LoadRawKill \/ RewriteStep]_vars

\* A coercion rule is called on a field text.
CoerceRules == {"coerce_date", "coerce_price", "coerce_user_id"}

InitCoerce ==
    /\ InitStores
    /\ call \in [pc : {"called"}, rule : CoerceRules, text : FieldTexts]

\* What the rule of the call returns.
CoerceResult ==
    CASE call.rule = "coerce_date" -> coerce_date(call.text)
      [] call.rule = "coerce_price" -> coerce_price(call.text)
      [] OTHER -> coerce_user_id(call.text)

CoerceRaises == call.rule = "coerce_price" /\ coerce_price(call.text).raises

CoerceReturn ==
    /\ call.pc = "called"
    /\ ~CoerceRaises
    /\ call' = [pc |-> "returned", rule |-> call.rule, text |-> call.text,
                result |-> CoerceResult]
    /\ UNCHANGED <<events_raw, raw_id_seq, events, global_stats, load_log,
                   ing, tr, agg, data_dir, ingested, folded, cmd>>

CoerceRaise ==
    /\ call.pc = "called"
    /\ CoerceRaises
    /\ call' = [call EXCEPT !.pc = "raised"]
    /\ UNCHANGED <<events_raw, raw_id_seq, events, global_stats, load_log,
                   ing, tr, agg, data_dir, ingested, folded, cmd>>

\* The coercion rules on their own, each called once on any field text.
SpecCoerce == InitCoerce /\ [][CoerceReturn \/ CoerceRaise]_vars

\* No process is killed: every run ends by itself, returning or raising.
SpecNoKill == Init /\ [][RunStep \/ RaiseStep]_vars

\* A stage is started, the Ingestor always on the same files.
FixedStartStep ==
    \/ /\ AllIdle /\ Len(load_log) < MaxLogFixed
       /\ raw_id_seq < MaxSeq
       /\ \E n \in 1..MaxChunk : LoadRawStart(FixedFiles, n)
    \/ /\ AllIdle /\ Len(load_log) < MaxLogFixed
       /\ \E n \in 1..MaxChunk : RawToSilverStart(n)
    \/ /\ AllIdle /\ Len(load_log) < MaxLogFixed
       /\ \E p \in DOMAIN agg, n \in 1..MaxChunk : SilverToGoldStart(p, n)

\* Runs over a fixed set of sources, in any order, any of them killed or
\* ended by an exception.
SpecFixed ==
    Init /\ [][FixedStartStep \/ InnerStep \/ RaiseStep \/ KillStep]_vars

\* The state after run_init, with two silver-to-gold commands to be run, each
\* on its own connection.
InitOverlap ==
    /\ events_raw = {}
    /\ raw_id_seq = 0
    /\ events = {}
    /\ global_stats = ensure_global_stats_row(<<>>)
    /\ load_log = <<>>
    /\ ing = IdleIng
    /\ tr = IdleTr
    /\ agg = [p \in {1, 2} |-> IdleAgg]
    /\ data_dir = [f \in Range(FileNames) |-> NULL]
    /\ ingested = {}
    /\ folded = <<>>
    /\ call = NoCall
    /\ cmd = NoCmd

\* A stage is started: the Ingestor and the Transformer while nothing runs,
\* an Aggregator also while the other Aggregator runs.
OverlapStartStep ==
    \/ /\ MayStart
       /\ raw_id_seq < MaxSeq
       /\ \E n \in 1..MaxChunk : LoadRawStart(FixedFiles, n)
    \/ MayStart /\ \E n \in 1..MaxChunk : RawToSilverStart(n)
    \/ /\ ing.pc = "idle" /\ tr.pc = "idle"
       /\ Len(load_log) + Cardinality({q \in DOMAIN agg : agg[q].pc # "idle"}) < MaxLog
       /\ \E p \in DOMAIN agg, n \in 1..MaxChunk : SilverToGoldStart(p, n)

\* Two Aggregator runs that overlap, their statements interleaved in any
\* order the row lock of gold.global_stats allows.
SpecOverlap ==
    InitOverlap /\ [][OverlapStartStep \/ InnerStep \/ RaiseStep \/ KillStep]_vars

\* A stage is started on a source of zero, negative and positive prices.
PriceStartStep ==
    \/ LoadRawStartStep
    \/ MayStart /\ \E n \in 1..MaxChunk : RawToSilverStart(n)
    \/ MayStart /\ \E p \in DOMAIN agg, n \in 1..MaxChunk :
                       SilverToGoldStart(p, n)

\* The steps of an Ingestor run on such a source.
PriceLoadRawStep ==
    \/ \E rows \in SeqsUpTo(PriceRows, MaxRows) :
            LoadRawOpen(EXPECTED_HEADER, rows)
    \/ LoadRawBatch
    \/ LoadRawFinishFile
    \/ LoadRawReturn

\* Runs over a source whose prices are zero, negative and positive, any of them
\* killed.
SpecPrices ==
    Init /\ [][\/ PriceStartStep \/ PriceLoadRawStep \/ RawToSilverStep
               \/ SilverToGoldStep \/ KillStep]_vars

\* The stages that are running.
Running ==
    (IF ing.pc = "idle" THEN 0 ELSE 1) + (IF tr.pc = "idle" THEN 0 ELSE 1)
        + Cardinality({q \in DOMAIN agg : agg[q].pc # "idle"})

\* A stage is started while it is not running itself: one writer per stage,
\* the three stages side by side.
StagesStartStep ==
    \/ /\ ing.pc = "idle"
       /\ Len(load_log) + Running < MaxLog
       /\ raw_id_seq < MaxSeq
       /\ \E n \in 1..MaxChunk : LoadRawStart(FileNames, n)
    \/ /\ tr.pc = "idle"
       /\ Len(load_log) + Running < MaxLog
       /\ \E n \in 1..MaxChunk : RawToSilverStart(n)
    \/ /\ Len(load_log) + Running < MaxLog
       /\ \E p \in DOMAIN agg, n \in 1..MaxChunk : SilverToGoldStart(p, n)

\* One Ingestor, one Transformer and one Aggregator, running side by side,
\* any of them killed or ended by an exception.
SpecStages ==
    Init /\ [][StagesStartStep \/ InnerStep \/ RaiseStep \/ KillStep]_vars

\* ------------------------------------------------ init, check and load
\* The statements of the sql directory, run by run_init after BASE_DDL: they
\* create the tables of the gold schema where these do not exist and leave
\* the rows of an existing table as they are.
CreateGoldTables(table) == table

\* The database before the first init command: no schema and no table, so no
\* row anywhere.
InitCommands ==
    /\ events_raw = {}
    /\ raw_id_seq = 0
    /\ events = {}
    /\ global_stats = <<>>
    /\ load_log = <<>>
    /\ ing = IdleIng
    /\ tr = IdleTr
    /\ agg = [p \in {1} |-> IdleAgg]
    /\ data_dir = [f \in Range(FileNames) |-> NULL]
    /\ ingested = {}
    /\ folded = <<>>
    /\ call = NoCall
    /\ cmd = NoCmd

\* The init command has run: the tables exist (a check or a load before it
\* ends at its first statement, no relation found and nothing written).
Initialized == global_stats # <<>>

\* A command may be started: none is running.
NoCommand == cmd.pc = "idle" /\ AllIdle

\* The init command: BASE_DDL, the sql files, ensure_global_stats_row, commit.
run_init ==
    /\ NoCommand
    /\ global_stats' = ensure_global_stats_row(CreateGoldTables(global_stats))
    /\ load_log' = CreateGoldTables(load_log)
    /\ cmd' = [NoCmd EXCEPT !.name = "init"]
    /\ UNCHANGED <<events_raw, raw_id_seq, events, ing, tr, agg, data_dir,
                   ingested, folded, call>>

\* The check command: two counts, ensure_global_stats_row, fetch_global_stats;
\* the connection's context manager commits.
run_check ==
    /\ NoCommand
    /\ Initialized
    /\ global_stats' = ensure_global_stats_row(global_stats)
    /\ cmd' = [NoCmd EXCEPT !.name = "check"]
    /\ UNCHANGED <<events_raw, raw_id_seq, events, load_log, ing, tr, agg,
                   data_dir, ingested, folded, call>>

\* choices of --stage
Stages == {"raw", "silver", "gold", "all"}

\* The load command: main calls run_load with the stage and the chunk size.
run_load(stage, chunk_size) ==
    /\ NoCommand
    /\ Initialized
    /\ Len(load_log) < MaxLog
    /\ stage \in {"raw", "silver", "all"} => raw_id_seq < MaxSeq
    /\ cmd' = [NoCmd EXCEPT !.name = "load", !.pc = "raw", !.stage = stage,
                            !.chunk_size = chunk_size]
    /\ UNCHANGED <<events_raw, raw_id_seq, events, global_stats, load_log, ing,
                   tr, agg, data_dir, ingested, folded, call>>

\* if stage in {"raw", "silver", "all"}: run_load_raw(...)
RunLoadRaw ==
    /\ cmd.pc = "raw"
    /\ cmd.stage \in {"raw", "silver", "all"}
    /\ run_load_raw_called(FixedFiles, cmd.chunk_size)
    /\ cmd' = [cmd EXCEPT !.pc = "in_raw", !.ran = Append(@, "raw")]

RunLoadSkipRaw ==
    /\ cmd.pc = "raw"
    /\ cmd.stage \notin {"raw", "silver", "all"}
    /\ cmd' = [cmd EXCEPT !.pc = "silver"]
    /\ UNCHANGED <<events_raw, raw_id_seq, events, global_stats, load_log, ing,
                   tr, agg, data_dir, ingested, folded, call>>

RunLoadRawReturns ==
    /\ cmd.pc = "in_raw"
    /\ run_load_raw_returns
    /\ cmd' = [cmd EXCEPT !.pc = "silver"]

\* if stage in {"silver", "all"}: run_raw_to_silver(...)
RunLoadSilver ==
    /\ cmd.pc = "silver"
    /\ cmd.stage \in {"silver", "all"}
    /\ run_raw_to_silver_called(cmd.chunk_size)
    /\ cmd' = [cmd EXCEPT !.pc = "in_silver", !.ran = Append(@, "silver")]

RunLoadSkipSilver ==
    /\ cmd.pc = "silver"
    /\ cmd.stage \notin {"silver", "all"}
    /\ cmd' = [cmd EXCEPT !.pc = "gold"]
    /\ UNCHANGED <<events_raw, raw_id_seq, events, global_stats, load_log, ing,
                   tr, agg, data_dir, ingested, folded, call>>

RunLoadSilverReturns ==
    /\ cmd.pc = "in_silver"
    /\ run_raw_to_silver_returns
    /\ cmd' = [cmd EXCEPT !.pc = "gold"]

\* if stage in {"gold", "all"}: run_silver_to_gold(...)
RunLoadGold ==
    /\ cmd.pc = "gold"
    /\ cmd.stage \in {"gold", "all"}
    /\ \E p \in DOMAIN agg : run_silver_to_gold_called(p, cmd.chunk_size)
    /\ cmd' = [cmd EXCEPT !.pc = "in_gold", !.ran = Append(@, "gold")]

\* The last stage is not selected: run_load returns.
RunLoadSkipGold ==
    /\ cmd.pc = "gold"
    /\ cmd.stage \notin {"gold", "all"}
    /\ cmd' = [cmd EXCEPT !.pc = "idle"]
    /\ UNCHANGED <<events_raw, raw_id_seq, events, global_stats, load_log, ing,
                   tr, agg, data_dir, ingested, folded, call>>

\* run_silver_to_gold returns, and run_load with it.
RunLoadGoldReturns ==
    /\ cmd.pc = "in_gold"
    /\ \E p \in DOMAIN agg : run_silver_to_gold_returns(p)
    /\ cmd' = [cmd EXCEPT !.pc = "idle"]

\* A stage raises: run_load has no handler and the command ends.
RunLoadRawRaises ==
    /\ cmd.pc = "in_raw"
    /\ run_load_raw_raises
    /\ cmd' = [cmd EXCEPT !.pc = "idle", !.raised = TRUE]

RunLoadSilverRaises ==
    /\ cmd.pc = "in_silver"
    /\ run_raw_to_silver_raises
    /\ cmd' = [cmd EXCEPT !.pc = "idle", !.raised = TRUE]

\* The steps of run_load between the calls it makes.
RunLoadStep ==
    \/ RunLoadRaw
    \/ RunLoadSkipRaw
    \/ RunLoadRawReturns
    \/ RunLoadSilver
    \/ RunLoadSkipSilver
    \/ RunLoadSilverReturns
    \/ RunLoadGold
    \/ RunLoadSkipGold
    \/ RunLoadGoldReturns
    \/ RunLoadRawRaises
    \/ RunLoadSilverRaises

\* The steps of the stage run_load has called, up to its return.
StageStep ==
    \/ \E header \in Headers : LoadRawBadHeader(header)
    \/ \E header \in Headers, rows \in SeqsUpTo(RowSet, MaxRows) :
            LoadRawOpen(header, rows)
    \/ LoadRawBatch
    \/ LoadRawFinishFile
    \/ RawToSilverSelect
    \/ RawToSilverChunk
    \/ \E p \in DOMAIN agg : SilverToGoldSelect(p)
    \/ \E p \in DOMAIN agg : SilverToGoldUpdate(p)
    \/ \E p \in DOMAIN agg : SilverToGoldCommit(p)

\* A command is started.
CommandStep ==
    \/ run_init
    \/ run_check
    \/ \E stage \in Stages, n \in 1..MaxChunk : run_load(stage, n)

\* The commands init, check and load, one after the other, each to its end.
SpecCommands ==
    InitCommands /\ [][CommandStep \/ RunLoadStep \/ StageStep]_vars

\* ------------------------------------------------------- scan of the store
RECURSIVE SumPrices(_)
SumPrices(S) ==
    IF S = {} THEN 0
    ELSE LET e == CHOOSE x \in S : TRUE IN e.price + SumPrices(S \ {e})

\* SELECT COUNT(*), COALESCE(SUM(price), 0), MIN(price), MAX(price) over a set
\* of silver.events rows.
ScanStats(S) ==
    [total_count |-> Cardinality(S),
     total_sum |-> SumPrices(S),
     min_price |-> IF S = {} THEN NULL ELSE Some(MinOf({e.price : e \in S})),
     max_price |-> IF S = {} THEN NULL ELSE Some(MaxOf({e.price : e \in S}))]

\* The four statistics of the committed aggregate row.
Aggregate ==
    LET g == StatsRow(global_stats)
    IN [total_count |-> g.total_count, total_sum |-> g.total_sum,
        min_price |-> g.min_price, max_price |-> g.max_price]

Watermark == StatsRow(global_stats).last_silver_id

LogHas(layer, status) ==
    \E i \in 1..Len(load_log) :
        load_log[i].layer = layer /\ load_log[i].status = status

\* ------------------------------------------------------------------ claims

\* C1: in every reachable state, also between the chunk commits of a run and
\* after a kill and a restart, the aggregate's count, sum, min and max are
\* those of a scan of the typed records with raw_id <= last_silver_id (min
\* and max NULL when there is none).
C1_AggregateIsScanToWatermark ==
    Aggregate = ScanStats({e \in events : e.raw_id <= Watermark})

\* C1 witness: a run between two of its chunk commits, one chunk merged and
\* the next selected.
C1_Witness ==
    /\ agg[1].pc = "update"
    /\ agg[1].processed > 0
    /\ Watermark > 0
    /\ Aggregate.min_price # NULL

\* C2: last_silver_id never decreases, and it is the largest typed-record id
\* merged into the aggregate so far (0 before the first merge), so also after
\* every run that completes.
C2_WatermarkMonotone ==
    /\ [](Watermark = MaxOf(Range(folded) \cup {0}))
    /\ [][StatsRow(global_stats').last_silver_id >= Watermark]_vars

\* C2 witness: a completed Aggregator run that merged rows.
C2_Witness ==
    /\ AllIdle
    /\ LogHas("gold", "SUCCESS")
    /\ Watermark > 1

LastTypedLayer ==
    LET rows == {i \in 1..Len(load_log) : load_log[i].layer # "raw"}
    IN IF rows = {} THEN "none" ELSE load_log[MaxOf(rows)].layer

NoDuplicates(s) == \A i, j \in 1..Len(s) : i # j => s[i] # s[j]

\* The typed records with raw_id in (lo, hi].
EventsBetween(lo, hi) == {e \in events : lo < e.raw_id /\ e.raw_id <= hi}

\* C4: a step that ends an Aggregator run without its ledger row (a kill)
\* leaves the committed aggregate row as it was; the statistics and the
\* watermark change only in the same step, the watermark moving up and the
\* count by the number of typed records it moves over; no typed record is
\* merged twice, a restarted run included.
C4_MergeIsAtomic ==
    /\ [](NoDuplicates(folded))
    /\ [][/\ \A p \in DOMAIN agg :
               (agg[p].pc # "idle" /\ agg'[p].pc = "idle"
                    /\ load_log' = load_log)
                   => global_stats' = global_stats
          /\ global_stats' # global_stats =>
               LET old == StatsRow(global_stats)
                   new == StatsRow(global_stats')
               IN /\ new.last_silver_id > old.last_silver_id
                  /\ new.total_count = old.total_count + Cardinality(
                         EventsBetween(old.last_silver_id,
                                       new.last_silver_id))
                  /\ new.total_sum = old.total_sum + SumPrices(
                         EventsBetween(old.last_silver_id,
                                       new.last_silver_id))]_vars

\* C4 witness: no Aggregator run has returned yet, two rows are merged, and the
\* running one merged only one of them: an earlier run was killed after its
\* commit and this one went on from the committed watermark.
C4_Witness ==
    /\ \A i \in 1..Len(load_log) : load_log[i].layer # "gold"
    /\ Len(folded) = 2
    /\ agg[1].pc = "select"
    /\ agg[1].processed = 1

\* The step that ends a header-valid file: trailing insert, ledger row, commit.
FinishesFile == ing.pc = "rows" /\ ing'.pc = "file"

LastLog(log) == log[Len(log)]

\* Positions of the three-column rows of a file's rows.
ValidRows(rows) == {i \in 1..Len(rows) : Len(rows[i]) = 3}

\* C5 as stated: the second ingestion of a source to its end leaves the number
\* of raw rows as it was and writes the status NO_NEW_ROWS.
C5_Original ==
    [][(FinishesFile /\ ing.file_name \in ingested) =>
          /\ Cardinality(events_raw') = Cardinality(events_raw)
          /\ Len(load_log') = Len(load_log) + 1
          /\ LastLog(load_log').status = "NO_NEW_ROWS"]_vars

\* C5 amended: the second ingestion of a header-valid source to its end
\* leaves the raw rows as they were and writes one ledger row for the file,
\* with status NO_NEW_ROWS when the source has a three-column row and
\* EMPTY_FILE when it has no data row at all.
C5_ReingestAddsNothing ==
    [][(FinishesFile /\ ing.file_name \in ingested) =>
          /\ events_raw' = events_raw
          /\ Len(load_log') = Len(load_log) + 1
          /\ LastLog(load_log').file_name = ing.file_name
          /\ LastLog(load_log').records = 0
          /\ ValidRows(ing.rows) # {} =>
                LastLog(load_log').status = "NO_NEW_ROWS"
          /\ ing.rows = <<>> => LastLog(load_log').status = "EMPTY_FILE"]_vars

\* C5 witness: a file ingested twice, SUCCESS then NO_NEW_ROWS, two raw rows.
C5_Witness ==
    /\ Len(load_log) = 2
    /\ load_log[1].layer = "raw" /\ load_log[1].status = "SUCCESS"
    /\ load_log[2].layer = "raw" /\ load_log[2].status = "NO_NEW_ROWS"
    /\ load_log[1].file_name = load_log[2].file_name
    /\ Cardinality(events_raw) = 2

\* C6 as stated: when an ingestion ends inside a file (killed, or a later
\* batch fails), the rows of the batches inserted before are in the raw store.
C6_Original ==
    [][(ing.pc = "rows" /\ ing'.pc = "idle") => ing.txn \subseteq events_raw']_vars

\* C7 as stated: a header-valid file ends with one ledger row whose status is
\* SUCCESS iff a new row was persisted, NO_NEW_ROWS iff it has three-column
\* rows and all were present, EMPTY_FILE iff it has no three-column row.
C7_Original ==
    [][FinishesFile =>
          LET new == events_raw' \ events_raw
              valid == ValidRows(ing.rows)
              status == LastLog(load_log').status
          IN /\ Len(load_log') = Len(load_log) + 1
             /\ status = "SUCCESS" <=> new # {}
             /\ status = "NO_NEW_ROWS" <=> (valid # {} /\ new = {})
             /\ status = "EMPTY_FILE" <=> valid = {}]_vars

\* The step that opens a file whose header is not the expected one.
SkipsFile ==
    /\ ing.pc = "file"
    /\ ing.files # <<>>
    /\ ing'.pc # "idle"
    /\ data_dir'[Head(ing.files)] # NULL
    /\ TheValue(data_dir'[Head(ing.files)]).header # EXPECTED_HEADER

\* C8: a file with an unexpected header adds no raw row, committed or pending,
\* writes exactly one ledger row, for that file, with status
\* SKIPPED_BAD_HEADER and 0 records, and the run goes on with the next file.
C8_BadHeaderSkipsFile ==
    [][SkipsFile =>
          /\ events_raw' = events_raw
          /\ raw_id_seq' = raw_id_seq
          /\ ing'.txn = {}
          /\ Len(load_log') = Len(load_log) + 1
          /\ SubSeq(load_log', 1, Len(load_log)) = load_log
          /\ LastLog(load_log').status = "SKIPPED_BAD_HEADER"
          /\ LastLog(load_log').file_name = Head(ing.files)
          /\ LastLog(load_log').records = 0
          /\ ing'.pc = "file"
          /\ ing'.files = Tail(ing.files)]_vars

\* C8 witness: a.csv was skipped for its header and b.csv is being read.
C8_Witness ==
    /\ Len(load_log) = 1
    /\ load_log[1].status = "SKIPPED_BAD_HEADER"
    /\ load_log[1].file_name = "a.csv"
    /\ ing.pc = "rows"
    /\ ing.file_name = "b.csv"
    /\ ing.txn # {}

\* The raw row of position i of file f, if any.
RawAt(f, i) == {r \in events_raw : r.source_file = f /\ r.row_number = i}

\* The step with which a Transformer run returns.
TransformerReturns == tr.pc = "log" /\ tr'.pc = "idle" /\ load_log' # load_log

\* C9: of a file ingested to its end, every three-column row has its raw row,
\* with the fields as read, and no other row has one; and when a Transformer
\* run returns, every raw row has its typed row, with the defaults and the
\* status COERCED where a field did not parse.
C9_ShapedRowsArePersisted ==
    /\ [](\A f \in ingested :
            LET rows == TheValue(data_dir[f]).rows
            IN \A i \in 1..Len(rows) :
                 IF Len(rows[i]) = 3
                 THEN \E r \in RawAt(f, i) :
                         /\ r.timestamp_raw = rows[i][1]
                         /\ r.price_raw = rows[i][2]
                         /\ r.user_id_raw = rows[i][3]
                 ELSE RawAt(f, i) = {})
    /\ [][TransformerReturns =>
            \A r \in events_raw :
               \E e \in events' :
                  /\ e.raw_id = r.id
                  /\ e.source_file = r.source_file
                  /\ r.user_id_raw = "abc" =>
                        (e.user_id = 0 /\ e.dq_status = "COERCED")
                  /\ r.timestamp_raw = "" => e.event_date = "1970-01-01"]_vars

\* C9 witness: a file with a two-column row and a row of unparsable fields was
\* ingested to its end and transformed.
C9_Witness ==
    /\ \E f \in ingested : TheValue(data_dir[f]).rows = <<RowShort, RowNeg>>
    /\ \E e \in events : e.dq_status = "COERCED"
    /\ LogHas("silver", "SUCCESS")
    /\ AllIdle

\* No raw row lacks its typed row.
NoPendingRaw == \A r \in events_raw : \E e \in events : e.raw_id = r.id

\* C10: a Transformer run that finds no raw row without a typed row goes from
\* its first SELECT straight to its ledger row; it leaves silver.events and
\* the aggregate row as they are and appends one ledger row, with status
\* NO_NEW_ROWS and 0 records.
C10_TransformerNoOp ==
    [][/\ (tr.pc = "select" /\ tr.processed_rows = 0 /\ NoPendingRaw
              /\ tr' # tr)
          => /\ tr'.pc \in {"log", "idle"}
             /\ UNCHANGED <<events, global_stats, load_log>>
       /\ (tr.pc = "log" /\ tr.processed_rows = 0 /\ load_log' # load_log)
          => /\ UNCHANGED <<events, global_stats>>
             /\ Len(load_log') = Len(load_log) + 1
             /\ SubSeq(load_log', 1, Len(load_log)) = load_log
             /\ LastLog(load_log').layer = "silver"
             /\ LastLog(load_log').status = "NO_NEW_ROWS"
             /\ LastLog(load_log').records = 0]_vars

\* C10 witness: a Transformer run that wrote rows, then one that found none.
C10_Witness ==
    /\ Len(load_log) = 3
    /\ load_log[2].layer = "silver" /\ load_log[2].status = "SUCCESS"
    /\ load_log[3].layer = "silver" /\ load_log[3].status = "NO_NEW_ROWS"
    /\ events # {}

\* C11: silver.events never holds two rows for one raw id, every row of it
\* refers to a raw row, and no step, a run restarted after a kill included,
\* removes or changes a row it holds.
C11_OneTypedPerRaw ==
    /\ [](\A e1, e2 \in events : e1.raw_id = e2.raw_id => e1 = e2)
    /\ [](\A e \in events : \E r \in events_raw : r.id = e.raw_id)
    /\ [][events \subseteq events']_vars

\* C11 witness: a Transformer run was killed after its first chunk commit and
\* the run started after it transformed the other raw row.
C11_Witness ==
    /\ \A i \in 1..Len(load_log) : load_log[i].layer # "silver"
    /\ tr.pc = "log"
    /\ tr.processed_rows = 1
    /\ Cardinality(events) = 2

\* Ids of a sequence of raw rows.
IdsOf(rows) == {rows[i].id : i \in 1..Len(rows)}

\* Ids of the raw rows without a typed row.
PendingIds == {r.id : r \in {q \in events_raw : \A e \in events : e.raw_id # q.id}}

\* C12 as stated: every chunk a Transformer run selects holds at most
\* chunk_size pending raw rows, the lowest pending ids in ascending order; the
\* run ends only from an empty selection, and when it has ended by itself
\* every raw row has its typed row.
C12_Original ==
    [][/\ (tr.pc = "select" /\ tr'.pc # "idle" /\ tr' # tr) =>
             /\ Len(tr'.rows) <= tr.chunk_size
             /\ IdsOf(tr'.rows) \subseteq PendingIds
             /\ \A i \in 1..Len(tr'.rows) - 1 : tr'.rows[i].id < tr'.rows[i + 1].id
             /\ \A id \in PendingIds \ IdsOf(tr'.rows) :
                   \A k \in IdsOf(tr'.rows) : k < id
             /\ Len(tr'.rows) = tr.chunk_size \/ IdsOf(tr'.rows) = PendingIds
             /\ tr'.pc = (IF tr'.rows = <<>> THEN "log" ELSE "chunk")
       /\ (tr.pc # "idle" /\ tr'.pc = "idle") =>
             /\ tr.pc = "log"
             /\ \A r \in events_raw : \E e \in events' : e.raw_id = r.id]_vars

\* C13: a Transformer or Aggregator run starts with a count of 0, adds to it
\* the rows of each chunk it writes to silver.events (merges into the
\* aggregate), writes nothing to the ledger before its last step, and that
\* step appends exactly one row: layer silver (gold), the count as records,
\* status SUCCESS when the count is positive and NO_NEW_ROWS when it is 0.
C13_OneLedgerRowPerRun ==
    [][/\ (tr.pc = "idle" /\ tr'.pc # "idle") => tr'.processed_rows = 0
       /\ (tr.pc = "chunk" /\ tr'.pc = "select") =>
             tr'.processed_rows =
                 tr.processed_rows + Cardinality(events' \ events)
       /\ (tr.pc # "idle" /\ tr'.pc # "idle") =>
             /\ load_log' = load_log
             /\ tr.pc # "chunk" => tr'.processed_rows = tr.processed_rows
       /\ (tr.pc # "idle" /\ load_log' # load_log) =>
             /\ tr'.pc = "idle"
             /\ Len(load_log') = Len(load_log) + 1
             /\ SubSeq(load_log', 1, Len(load_log)) = load_log
             /\ LastLog(load_log').layer = "silver"
             /\ LastLog(load_log').records = tr.processed_rows
             /\ LastLog(load_log').status =
                   (IF tr.processed_rows > 0 THEN "SUCCESS" ELSE "NO_NEW_ROWS")
       /\ \A p \in DOMAIN agg :
             /\ (agg[p].pc = "idle" /\ agg'[p].pc # "idle") =>
                   agg'[p].processed = 0
             /\ (agg[p].pc = "update" /\ agg'[p].pc = "commit") =>
                   agg'[p].processed = agg[p].processed + Len(agg[p].rows)
             /\ (agg[p].pc = "commit" /\ agg'[p].pc = "select") =>
                   /\ agg'[p].processed = agg[p].processed
                   /\ Len(folded') = Len(folded) + Len(agg[p].rows)
                   /\ StatsRow(global_stats').total_count =
                         StatsRow(global_stats).total_count + Len(agg[p].rows)
             /\ (agg[p].pc # "idle" /\ agg'[p].pc # "idle") =>
                   load_log' = load_log
             /\ (agg[p].pc # "idle" /\ load_log' # load_log) =>
                   /\ agg'[p].pc = "idle"
                   /\ Len(load_log') = Len(load_log) + 1
                   /\ SubSeq(load_log', 1, Len(load_log)) = load_log
                   /\ LastLog(load_log').layer = "gold"
                   /\ LastLog(load_log').records = agg[p].processed
                   /\ LastLog(load_log').status =
                         (IF agg[p].processed > 0 THEN "SUCCESS"
                          ELSE "NO_NEW_ROWS")]_vars

\* C13 witness: a Transformer run that wrote two rows and an Aggregator run
\* that merged them have returned, each with its ledger row.
C13_Witness ==
    /\ AllIdle
    /\ Len(load_log) = 3
    /\ load_log[2].layer = "silver" /\ load_log[2].records = 2
    /\ load_log[2].status = "SUCCESS"
    /\ load_log[3].layer = "gold" /\ load_log[3].records = 2
    /\ load_log[3].status = "SUCCESS"
    /\ Cardinality(events) = 2

\* Ids of the typed rows.
TypedIds == {e.raw_id : e \in events}

\* C14: when an Aggregator run returns, whatever its chunk size and whatever
\* the earlier runs (returned or killed) and their chunk sizes merged, the
\* aggregate's count, sum, min and max are those of the scan of the typed
\* store and the watermark is its largest raw_id: values fixed by the typed
\* store alone.
C14_FoldIndependentOfChunks ==
    [][\A p \in DOMAIN agg :
          (agg[p].pc = "log" /\ load_log' # load_log) =>
             /\ events' = events
             /\ [total_count |-> StatsRow(global_stats').total_count,
                 total_sum |-> StatsRow(global_stats').total_sum,
                 min_price |-> StatsRow(global_stats').min_price,
                 max_price |-> StatsRow(global_stats').max_price]
                   = ScanStats(events)
             /\ StatsRow(global_stats').last_silver_id
                   = MaxOf(TypedIds \cup {0})]_vars

\* C14 witness: a typed store of two rows with different prices merged by two
\* runs, one row each, the second run with a chunk size of 2.
C14_Witness ==
    /\ agg[1].pc = "log"
    /\ agg[1].chunk_size = 2
    /\ agg[1].processed = 1
    /\ Len(folded) = 2
    /\ Aggregate.min_price # Aggregate.max_price

\* The raw store a single Ingestor run leaves from the tables visible and
\* the sequence value seq, over files as data_dir holds them.
RECURSIVE PassRaw(_, _, _)
PassRaw(files, visible, seq) ==
    IF files = <<>> THEN visible
    ELSE LET src == TheValue(data_dir[Head(files)])
             rd == ReadRows(Head(files), src.rows, 0, <<>>, Len(src.rows) + 1)
             ins == insert_raw_chunk(visible, seq, rd.batch)
         IN IF ~HeaderOk(src.header) THEN PassRaw(Tail(files), visible, seq)
            ELSE PassRaw(Tail(files), visible \cup Range(ins.inserted), ins.seq)

\* Raw store, typed store and aggregate row after one Ingestor run, one
\* Transformer run and one Aggregator run from the state after run_init.
SinglePass ==
    LET raw == PassRaw(FixedFiles, {}, 0)
        ids == SortInts({r.id : r \in raw})
        typed == UpsertSilver({}, Payload([i \in 1..Len(ids) |->
                     CHOOSE r \in raw : r.id = ids[i]]))
        new == SelectNewEvents(typed, 0, Cardinality(typed) + 1)
        prices == Prices(new)
        stats == IF new = <<>> THEN ZeroStats
                 ELSE UpdateStats(ZeroStats, Len(prices), SumSeq(prices),
                                  Some(MinOf(Range(prices))),
                                  Some(MaxOf(Range(prices))),
                                  RawIds(new)[Len(new)])
    IN [raw |-> raw, typed |-> typed, stats |-> stats]

\* A raw row without its surrogate id: its identity (source, position) and
\* its fields.
RawContent(r) ==
    [source_file |-> r.source_file, row_number |-> r.row_number,
     timestamp_raw |-> r.timestamp_raw, price_raw |-> r.price_raw,
     user_id_raw |-> r.user_id_raw]

\* A typed row of a typed store with the position of its raw row of the raw
\* store raw in place of the surrogate id.
TypedContent(e, raw) ==
    [row_number |-> (CHOOSE r \in raw : r.id = e.raw_id).row_number,
     event_date |-> e.event_date, price |-> e.price, user_id |-> e.user_id,
     dq_status |-> e.dq_status, source_file |-> e.source_file]

\* The raw record a watermark stands for.
WatermarkContent(w, raw) ==
    IF w = 0 THEN {} ELSE {RawContent(r) : r \in {q \in raw : q.id = w}}

\* The ledger ends with the rows of an Ingestor run over FixedFiles, a
\* Transformer run and an Aggregator run, and no run is in progress.
EndsWithFullPass ==
    LET n == Len(load_log)
        k == Len(FixedFiles)
    IN /\ AllIdle
       /\ n >= k + 2
       /\ \A i \in 1..k : /\ load_log[n - 2 - k + i].layer = "raw"
                          /\ load_log[n - 2 - k + i].file_name = FixedFiles[i]
       /\ load_log[n - 1].layer = "silver"
       /\ load_log[n].layer = "gold"

\* C15: with every Ingestor run over the same sources, after any sequence
\* of runs, returned, killed or ended by an exception, that ends with an
\* Ingestor run, a Transformer run and an Aggregator run that returned, the
\* raw store, the typed store and the aggregate are those of a single pass:
\* the same raw records (identity and fields) and as many, the same typed
\* records, the same count, sum, min and max, the watermark on the same
\* record.  Surrogate ids are left out of the comparison (the sequence also
\* advances for rows not inserted).
C15_AnyOrderEqualsSinglePass ==
    EndsWithFullPass =>
        LET one == SinglePass
        IN /\ {RawContent(r) : r \in events_raw}
                = {RawContent(r) : r \in one.raw}
           /\ Cardinality(events_raw) = Cardinality(one.raw)
           /\ {TypedContent(e, events_raw) : e \in events}
                = {TypedContent(e, one.raw) : e \in one.typed}
           /\ Cardinality(events) = Cardinality(one.typed)
           /\ Aggregate = [total_count |-> one.stats.total_count,
                           total_sum |-> one.stats.total_sum,
                           min_price |-> one.stats.min_price,
                           max_price |-> one.stats.max_price]
           /\ WatermarkContent(Watermark, events_raw)
                = WatermarkContent(one.stats.last_silver_id, one.raw)

\* C15 witness: six runs returned, the last three an Ingestor, a Transformer
\* and an Aggregator run; two rows are merged and the sequence has advanced
\* past the two rows of the source.
C15_Witness ==
    /\ EndsWithFullPass
    /\ Len(load_log) = 6
    /\ Aggregate.total_count = 2
    /\ raw_id_seq > 2

\* Positions of the file being read whose row has three columns and whose raw
\* row is stored with other fields.
ChangedRows ==
    {i \in ValidRows(ing.rows) :
        \E r \in RawAt(ing.file_name, i) :
            <<r.timestamp_raw, r.price_raw, r.user_id_raw>> # ing.rows[i]}

\* C16: no step removes or changes a stored raw row and no two raw rows
\* share (source_file, row_number); an ingestion that reads to the end a file
\* with rows whose position is stored with other fields ends the file as
\* any other, with one ledger row counting the new positions only, and leaves
\* the stored rows as they were.
C16_RawRecordImmutable ==
    /\ [](\A r1, r2 \in events_raw :
             (r1.source_file = r2.source_file
                 /\ r1.row_number = r2.row_number) => r1 = r2)
    /\ [][/\ events_raw \subseteq events_raw'
          /\ (FinishesFile /\ ChangedRows # {}) =>
                /\ \A i \in ChangedRows :
                      RawAt(ing.file_name, i)
                        = {r \in events_raw' : r.source_file = ing.file_name
                                                 /\ r.row_number = i}
                /\ Len(load_log') = Len(load_log) + 1
                /\ LastLog(load_log').records
                      = Cardinality(events_raw' \ events_raw)
                /\ LastLog(load_log').status \in {"SUCCESS", "NO_NEW_ROWS"}
                /\ ing'.pc = "file"]_vars

\* C16 witness: a file was ingested, rewritten with another first row and
\* ingested to its end again: status NO_NEW_ROWS, the stored row keeps the
\* fields of the first ingestion.
C16_Witness ==
    /\ ing.pc = "file"
    /\ ing.files = <<>>
    /\ Len(load_log) = 2
    /\ load_log[1].status = "SUCCESS"
    /\ load_log[2].status = "NO_NEW_ROWS"
    /\ \E r \in events_raw :
          /\ r.source_file = "a.csv"
          /\ r.row_number = 1
          /\ r.price_raw = "1.005"
          /\ TheValue(data_dir["a.csv"]).rows = <<RowNeg>>

\* C17 as stated: a coercion rule called on any field text returns, never
\* raises, and what coerce_price returns is a number.
C17_Original ==
    /\ call.pc # "raised"
    /\ (call.pc = "returned" /\ call.rule = "coerce_price") => ~call.result.nan

\* Field texts that are no decimal number.
NotANumber ==
    {"", " ", "abc", "2024-01-05", "2024-01-05T10:00:00Z", "2024-1-5"}

\* The amount of a decimal literal rounded half up to cents, by hand.
RoundedCents(text) ==
    CASE text = "0" -> 0
      [] text \in {"7", " 7 ", "7.0"} -> 700
      [] text = "7.9" -> 790
      [] text = "-7.9" -> -790
      [] text = "1.005" -> 101
      [] text = "10.005" -> 1001
      [] text = "10.004" -> 1000
      [] text = "-2.50" -> -250
      [] text = "-2.505" -> -251
      [] OTHER -> 100 * NumericLimit

\* C18 as stated: coerce_price returns 0.00 flagged for an empty or
\* unparsable text and, for any other text, the amount rounded half up to two
\* decimals, not flagged.
C18_Original ==
    (call.rule = "coerce_price" /\ call.pc # "called") =>
        /\ call.pc = "returned"
        /\ ~call.result.nan
        /\ IF call.text \in NotANumber
           THEN call.result.value = 0 /\ call.result.coerced
           ELSE /\ call.result.value = RoundedCents(call.text)
                /\ ~call.result.coerced

\* The identifier of a decimal literal truncated toward zero and whether a
\* fractional part was dropped, by hand.
TruncatedId(text) ==
    CASE text = "0" -> <<0, FALSE>>
      [] text \in {"7", " 7 ", "7.0"} -> <<7, FALSE>>
      [] text = "7.9" -> <<7, TRUE>>
      [] text = "-7.9" -> <<-7, TRUE>>
      [] text = "1.005" -> <<1, TRUE>>
      [] text \in {"10.005", "10.004"} -> <<10, TRUE>>
      [] text \in {"-2.50", "-2.505"} -> <<-2, TRUE>>
      [] OTHER -> <<NumericLimit, FALSE>>

\* C19: coerce_user_id always returns; it returns 0 flagged for a text that
\* is empty or no number (an infinity and a NaN included) and, for a number,
\* the integer truncated toward zero, flagged exactly when a fractional part
\* was dropped.
C19_IdentifierCoercion ==
    (call.rule = "coerce_user_id" /\ call.pc # "called") =>
        /\ call.pc = "returned"
        /\ IF call.text \in NotANumber \cup {"Infinity", "NaN"}
           THEN call.result.value = 0 /\ call.result.coerced
           ELSE <<call.result.value, call.result.coerced>>
                    = TruncatedId(call.text)

\* C19 witness: coerce_user_id returned -7, flagged, for "-7.9".
C19_Witness ==
    /\ call.pc = "returned"
    /\ call.rule = "coerce_user_id"
    /\ call.text = "-7.9"
    /\ call.result = [value |-> -7, coerced |-> TRUE]

\* C20: the dq_status of every typed row is COERCED exactly when one of the
\* three coercion rules flags the field of its raw row, and OK otherwise; a
\* Transformer run counts the rows with status COERCED of each chunk it
\* writes and reports that count in its ledger row.
C20_StatusIsAnyFlag ==
    /\ [](\A e \in events :
             /\ e.dq_status \in {"OK", "COERCED"}
             /\ e.dq_status = "COERCED" <=>
                   \/ coerce_date(RawById(e.raw_id).timestamp_raw).coerced
                   \/ coerce_price(RawById(e.raw_id).price_raw).coerced
                   \/ coerce_user_id(RawById(e.raw_id).user_id_raw).coerced)
    /\ [][/\ (tr.pc = "idle" /\ tr'.pc # "idle") => tr'.coerced_rows = 0
          /\ (tr.pc # "idle" /\ tr'.pc # "idle") =>
                tr'.coerced_rows = tr.coerced_rows + Cardinality(
                    {e \in events' \ events : e.dq_status = "COERCED"})
          /\ TransformerReturns =>
                LastLog(load_log').details
                    = [kind |-> "coerced", rows |-> tr.coerced_rows]]_vars

\* C20 witness: a Transformer run wrote a row with status OK and a row of
\* which two fields are flagged and the price is not, and reported one
\* coerced row.
C20_Witness ==
    /\ \E e \in events : e.dq_status = "OK"
    /\ \E e \in events : e.dq_status = "COERCED" /\ e.price = -250
    /\ Len(load_log) = 2
    /\ load_log[2].layer = "silver"
    /\ load_log[2].records = 2
    /\ load_log[2].details = [kind |-> "coerced", rows |-> 1]

\* C21: no step of the Ingestor, the Transformer or the Aggregator changes or
\* removes a row of gold.load_log: the ledger before a step is a prefix of
\* the ledger after it, so the ledger of any earlier state is a prefix of the
\* ledger of any later one.
C21_LedgerAppendOnly ==
    [][/\ Len(load_log') >= Len(load_log)
       /\ SubSeq(load_log', 1, Len(load_log)) = load_log]_vars

\* C21 witness: the three stages have each written a row after the rows that
\* were there, and the ledger is full.
C21_Witness ==
    /\ Len(load_log) = MaxLog
    /\ load_log[1].layer = "raw"
    /\ load_log[2].layer = "silver"
    /\ load_log[3].layer = "gold"
    /\ load_log[1].records > 0

\* C22: when two Aggregator runs overlap, interleaved at their chunk SELECT,
\* merge UPDATE and commit, no typed record is folded into the aggregate more
\* than once: total_count never exceeds the number of typed records with
\* raw_id <= last_silver_id.
C22_Original ==
    /\ NoDuplicates(folded)
    /\ Aggregate.total_count <=
            Cardinality({e \in events : e.raw_id <= Watermark})

\* The Aggregator p has run its chunk SELECT in this step.
Selects(p) == agg[p].pc = "select" /\ agg'[p].pc \in {"update", "log"}

\* C23: every chunk the Aggregator selects holds only typed records with
\* raw_id strictly greater than last_silver_id as stored when it selects, in
\* ascending raw_id order and at most chunk_size of them; so a typed record
\* with raw_id <= last_silver_id, and any record a run has merged, is not read
\* again by this or a later run.
C23_ChunkIsBeyondWatermark ==
    [][\A p \in DOMAIN agg : Selects(p) =>
          LET rows == agg'[p].rows
          IN /\ Len(rows) <= agg[p].chunk_size
             /\ \A i \in 1..Len(rows) :
                    /\ rows[i].raw_id > Watermark
                    /\ rows[i].raw_id \notin Range(folded)
                    /\ \E e \in events :
                           e.raw_id = rows[i].raw_id /\ e.price = rows[i].price
             /\ \A i, j \in 1..Len(rows) :
                    i < j => rows[i].raw_id < rows[j].raw_id]_vars

\* C23 witness: a later run, started after a run that advanced the watermark
\* and was killed, has selected its first chunk; the store holds a typed
\* record at or below the watermark, which the chunk leaves out.
C23_Witness ==
    /\ agg[1].pc = "update"
    /\ agg[1].processed = 0
    /\ Watermark > 0
    /\ \E e \in events : e.raw_id <= Watermark
    /\ ~LogHas("gold", "SUCCESS")

\* The prices of the chunk Aggregator p is about to commit.
ChunkPrices(p) == Range(Prices(agg[p].rows))

\* C24: min_price and max_price of the aggregate are NULL exactly when
\* total_count is 0; the first merged chunk sets them to the chunk's minimum
\* and maximum, also when these are 0.00 or negative, and every later merge
\* sets min_price to the smaller of the stored and the chunk's minimum and
\* max_price to the larger of the stored and the chunk's maximum; NULL is
\* never read as zero.
C24_MinMaxAbsentUntilFirstMerge ==
    /\ [](/\ Aggregate.min_price = NULL <=> Aggregate.total_count = 0
          /\ Aggregate.max_price = NULL <=> Aggregate.total_count = 0)
    /\ [][Aggregate' # Aggregate =>
            \E p \in DOMAIN agg :
                /\ agg[p].pc = "commit"
                /\ agg'[p].pc = "select"
                /\ LET lo == MinOf(ChunkPrices(p))
                       hi == MaxOf(ChunkPrices(p))
                   IN IF Aggregate.total_count = 0
                      THEN /\ Aggregate'.min_price = Some(lo)
                           /\ Aggregate'.max_price = Some(hi)
                      ELSE /\ Aggregate'.min_price =
                                Some(Least(TheValue(Aggregate.min_price), lo))
                           /\ Aggregate'.max_price =
                                Some(Greatest(TheValue(Aggregate.max_price),
                                              hi))]_vars

\* C24 witness: the first merged chunk was one record of price -2.50, the
\* second one record of price 0.00: the aggregate's minimum is -2.50 and its
\* maximum 0.00.
C24_Witness ==
    /\ Len(folded) = 2
    /\ Aggregate.total_count = 2
    /\ Aggregate.min_price = Some(-250)
    /\ Aggregate.max_price = Some(0)
    /\ \E e \in events : e.raw_id = folded[1] /\ e.price = -250
    /\ \A p \in DOMAIN agg : agg[p].chunk_size = 1 /\ agg[p].processed = 2

\* The stages the claim has a load of each --stage run, in order.
ClaimedStages(stage) ==
    CASE stage = "raw" -> <<"raw">>
      [] stage = "silver" -> <<"silver">>
      [] stage = "gold" -> <<"gold">>
      [] stage = "all" -> <<"raw", "silver", "gold">>

\* C25: run_load runs only the stages its stage argument selects, in the
\* order RAW, SILVER, GOLD: raw runs only the Ingestor, silver only the
\* Transformer, gold only the Aggregator, all the three of them.
C25_Original ==
    (cmd.name = "load" /\ cmd.pc = "idle" /\ ~cmd.raised)
        => cmd.ran = ClaimedStages(cmd.stage)

\* C26: the aggregate row is created once, with count 0, sum 0, min and max
\* NULL and watermark 0, and only the Aggregator's merge changes it: Ingestor
\* and Transformer runs, run_init, run_check and every further call of
\* ensure_global_stats_row leave the count, sum, min, max and watermark of an
\* existing row as they are.
C26_AggregateChangedOnlyByMerge ==
    /\ [](Len(global_stats) <= 1)
    /\ [][(global_stats = <<>> /\ global_stats' # <<>>)
            => global_stats' = <<ZeroStats>>]_vars
    /\ [][(global_stats # <<>> /\ global_stats' # global_stats)
            => /\ Len(global_stats') = 1
               /\ \E p \in DOMAIN agg :
                      agg[p].pc = "commit" /\ agg'[p].pc = "select"]_vars

\* C26 witness: the init command has run again after a merge, and the
\* aggregate still holds what was merged.
C26_Witness ==
    /\ cmd.name = "init"
    /\ cmd.pc = "idle"
    /\ global_stats # <<>>
    /\ Aggregate.total_count > 0
    /\ Watermark > 0
    /\ LogHas("raw", "SUCCESS")
    /\ LogHas("silver", "SUCCESS")

\* C27: with one writer per stage, in every reachable state a raw record that
\* has a typed record has every raw record of smaller id typed as well; so no
\* typed record is created with raw_id <= last_silver_id once the Aggregator
\* has moved the watermark to or past that id.
C27_TypedDownwardClosed ==
    /\ [](\A r, q \in events_raw :
            (q.id < r.id /\ r.id \in TypedIds) => q.id \in TypedIds)
    /\ [][\A e \in events' \ events :
            e.raw_id > Watermark /\ e.raw_id > Watermark']_vars

\* C27 witness: of two raw records the one of smaller id is typed and merged,
\* the watermark stands at it, and the Transformer is about to type the other
\* while the Ingestor is still running.
C27_Witness ==
    /\ Cardinality(events_raw) = 2
    /\ Cardinality(events) = 1
    /\ \E e \in events : Watermark = e.raw_id
    /\ tr.pc = "chunk"
    /\ ing.pc # "idle"

====
